---- MODULE Spec2Model ----
(***************************************************************************)
(* Model of dsr/language_model/language_model.py: class LModel, the bridge *)
(* between the search grammar's token library and a recurrent language     *)
(* model.  The constructor builds the library alignment (set_lib_to_lib),  *)
(* get_lm_prior runs one step of the language model, threads the recurrent *)
(* state through self.next_state and projects the logits onto the search   *)
(* library.                                                                *)
(*                                                                         *)
(* The language model itself (DynRNNLanguageModel run in a tf Session) is  *)
(* not part of the modelled file; it is represented by a small             *)
(* deterministic recurrent cell whose rows are independent, as section 4.2 *)
(* of the specification describes the step contract.                       *)
(*                                                                         *)
(* Logit values are kept exact: a value [raw |-> L, lnk |-> k] stands for  *)
(* the real number L - ln(k) (k >= 1), and lnk = 0 for +inf (L - ln 0).    *)
(***************************************************************************)
EXTENDS Integers, Sequences, FiniteSets, TLC

\* ---------------------------------------------------------------- bounds
MaxVars == 2
MaxHidden == 2

\* ------------------------------------------------------- inputs to choose
\* function sets handed to the constructor (dsr_function_set)
FunctionSets ==
    { <<>>, <<"sin">>, <<"Sin">>, <<"add">>, <<"add", "sin">>,
      <<"sin", "Sin">>, <<"add", "cos">> }

\* batch sizes of the caller's next_input
BatchSizes == {1, 2}

\* pickled token -> id tables (saved_lmodel_lib); ids are 0..len-1
Vocabularies ==
    { ("TERMINAL" :> 0) @@ ("add" :> 1) @@ ("sin" :> 2),
      ("sin" :> 0) @@ ("TERMINAL" :> 1),
      ("add" :> 0) @@ ("sin" :> 1),
      ("TERMINAL" :> 0) @@ ("Sin" :> 1) @@ ("add" :> 2) }

\* ------------------------------------------------------------- sentinels
None == <<>>                 \* Python None for next_state / no array returned
KeyError == -1               \* result of a failed dict lookup
Unset == <<-1>>              \* attribute never assigned (dsr2lm)
UnsetDict == (-1 :> -1)      \* attribute never assigned (lm2dsr)

VARIABLES
    pc,               \* "new" (arguments chosen), "ready" (constructed), "failed"
    dsr_function_set, \* constructor argument
    dsr_n_input_var,  \* self.dsr_n_input_var
    prob_sharing,     \* self.prob_sharing
    lm_token2idx,     \* self.lm_token2idx
    dsr2lm,           \* self.dsr2lm
    lm2dsr,           \* self.lm2dsr
    next_state,       \* self.next_state
    last_op,          \* the most recent call on the object
    err,              \* exception raised by the most recent call, or "none"
    next_input,       \* argument of the most recent get_lm_prior call
    n_invoked,        \* number of lsess.run invocations made by the most recent call
    fed_state,        \* initial_state fed to the model by the most recent call (None: not fed)
    last_state,       \* state returned by the model's most recent successful run
    lm_logit,         \* raw logits returned by the model in the most recent call
    lm_prior,         \* value returned by the most recent get_lm_prior call
    episode_step,     \* position of the most recent model run in its episode
    caller_input,     \* the caller's batch array as it is after the most recent call
    \* two LModel instances built from the same arguments and stepped in any order
    p_pc,             \* "new", "ready" or "failed" for the pair
    p_dsr2lm,         \* self.dsr2lm of each instance
    p_store,          \* the next_state attribute cells, by owner
    p_prior,          \* value returned by each instance's most recent call
    p_order,          \* how far the model runs so far spell instance 1, 2, 1
    solo_state,       \* next_state of each instance run alone on its own calls
    solo_prior        \* value returned to each instance run alone on its own calls

vars == << pc, dsr_function_set, dsr_n_input_var, prob_sharing, lm_token2idx,
           dsr2lm, lm2dsr, next_state, last_op, err, next_input, n_invoked,
           fed_state, last_state, lm_logit, lm_prior, episode_step,
           caller_input, p_pc, p_dsr2lm, p_store, p_prior, p_order,
           solo_state, solo_prior >>

\* the variables of the two-instance runs
pair == << p_pc, p_dsr2lm, p_store, p_prior, p_order, solo_state, solo_prior >>

\* the variables of the single instance
single == << pc, dsr2lm, lm2dsr, next_state, last_op, err, next_input, n_invoked,
             fed_state, last_state, lm_logit, lm_prior, episode_step, caller_input >>

Instances == {1, 2}

config == << dsr_function_set, dsr_n_input_var, prob_sharing, lm_token2idx >>

\* ------------------------------------------------------------ primitives
\* str.lower() on the function names in use
Lower(s) ==
    CASE s = "Sin" -> "sin"
      [] s = "TERMINAL" -> "terminal"
      [] OTHER -> s

\* a lookup that substitutes id 0 for a missing key (dict.get(key, 0))
Lookup_default(d, key) == IF key \in DOMAIN d THEN d[key] ELSE 0

\* d[key] of a Python dict: the id, or KeyError
Lookup(d, key) == IF key \in DOMAIN d THEN d[key] ELSE KeyError

Max(S) == CHOOSE x \in S : \A y \in S : y <= x

\* exact logit arithmetic
Raw(L) == [raw |-> L, lnk |-> 1]
PosInf == [raw |-> 0, lnk |-> 0]
\* a correction that counts one member too many: v - np.log(n + 1)
LogSub_plus_one(v, n) == [raw |-> v.raw, lnk |-> v.lnk * (n + 1)]

\* v - np.log(n); np.log(0) = -inf
LogSub(v, n) ==
    IF n = 0 \/ v.lnk = 0 THEN PosInf ELSE [raw |-> v.raw, lnk |-> v.lnk * n]

\* ---------------------------------------------------- set_lib_to_lib
\* an alignment that lists the functions before the input variables
Dsr2lmOf_functions_first(d, function_set, n_input_var) ==
    [j \in 1..Len(function_set) |-> Lookup(d, Lower(function_set[j]))]
        \o [i \in 1..n_input_var |-> Lookup(d, "TERMINAL")]

\* dsr2lm: 'TERMINAL' for every input variable, then the lower-cased functions
Dsr2lmOf(d, function_set, n_input_var) ==
    [i \in 1..n_input_var |-> Lookup(d, "TERMINAL")]
        \o [j \in 1..Len(function_set) |-> Lookup(d, Lower(function_set[j]))]

\* {lm_idx: i for i, lm_idx in enumerate(dsr2lm)}: the last index wins
Lm2dsrOf(table) ==
    [m \in {table[i] : i \in 1..Len(table)} |->
        Max({i - 1 : i \in {j \in 1..Len(table) : table[j] = m}})]

set_lib_to_lib(d, function_set, n_input_var) ==
    LET table == Dsr2lmOf(d, function_set, n_input_var)
    IN  IF \E i \in 1..Len(table) : table[i] = KeyError
        THEN [ok |-> FALSE, dsr2lm |-> Unset, lm2dsr |-> UnsetDict]
        ELSE [ok |-> TRUE, dsr2lm |-> table, lm2dsr |-> Lm2dsrOf(table)]

\* ------------------------------------------------- the language model
VocabSize == Cardinality(DOMAIN lm_token2idx)

\* the model's own default initial state, one cell per batch row
DefaultState(batch) == [b \in 1..batch |-> 0]

\* one recurrent step of one row
Cell(h, tok) == (h + tok + 1) % MaxHidden

\* lmodel.last_state for input tokens x and initial state init
LastState(tokens, init) == [b \in 1..Len(tokens) |-> Cell(init[b], tokens[b])]

\* the state tensors are shaped per batch row: a run with a state of another
\* batch size fails
ModelAccepts(tokens, init) == Len(init) = Len(tokens)

\* lmodel.logits: shape (batch, lm size), ids 0..VocabSize-1
Logits(state) ==
    [b \in 1..Len(state) |-> [m \in 0..(VocabSize - 1) |-> Raw(state[b] * VocabSize + m)]]

\* ------------------------------------------------------ get_lm_prior
\* np.array(self.dsr2lm)[next_input]
Prep(table, input) == [b \in 1..Len(input) |-> table[input[b] + 1]]

\* logit[:,:,T] = logit[:,:,T] - np.log(self.dsr_n_input_var)
ShareTerminal(logit, terminal, n_input_var) ==
    [b \in 1..Len(logit) |->
        [m \in DOMAIN logit[b] |->
            IF m = terminal THEN LogSub(logit[b][m], n_input_var) ELSE logit[b][m]]]

\* a projection that reads the alignment table back to front: logit[0,:,self.dsr2lm[::-1]]
Gather_reversed(logit, table) ==
    [i \in 1..Len(table) |-> [b \in 1..Len(logit) |-> logit[b][table[Len(table) + 1 - i]]]]

\* logit[0,:,self.dsr2lm]: shape (dsr size, batch)
Gather(logit, table) ==
    [i \in 1..Len(table) |-> [b \in 1..Len(logit) |-> logit[b][table[i]]]]

\* np.transpose: shape (batch, dsr size)
Transpose(a, batch) == [b \in 1..batch |-> [i \in 1..Len(a) |-> a[i][b]]]

\* _logit_to_prior: the prior, or KeyError when 'TERMINAL' is looked up and missing
LogitToPrior(logit, d, table, n_input_var, sharing) ==
    IF sharing /\ Lookup(d, "TERMINAL") = KeyError
    THEN [ok |-> FALSE, prior |-> None]
    ELSE LET shared == IF sharing
                       THEN ShareTerminal(logit, Lookup(d, "TERMINAL"), n_input_var)
                       ELSE logit
         IN  [ok |-> TRUE, prior |-> Transpose(Gather(shared, table), Len(logit))]

\* a feed that never passes the held state on
FeedState_never(held) == None

\* a feed that always passes a state, a zero state when none is held
FeedState_always(held) == IF held # None THEN held ELSE <<0>>

\* feed_dict's initial_state entry: the held state when there is one
FeedState(held) == IF held # None THEN held ELSE None

\* a bridge that runs the session a second time when the first run fails
Invocations_retry(modelOk) == IF modelOk THEN 1 ELSE 2

\* number of lsess.run calls of one get_lm_prior: the single call of line 98,
\* outside any loop or try block
Invocations(modelOk) == 1

\* a bridge that drops the held state when the run fails
StateOnRaise_cleared(held) == None

\* self.next_state when lsess.run raises: the assignment of line 98 is not reached
StateOnRaise(held) == held

\* a _prep that writes the model ids into the caller's array: next_input[:] = ...
InputAfterPrep_in_place(table, input) == [b \in 1..Len(input) |-> table[input[b] + 1]]

\* the caller's array after _prep: indexing with it builds a new array
InputAfterPrep(table, input) == input

\* ------------------------------------------------------------ behaviour
Init ==
    /\ pc = "new"
    /\ dsr_function_set \in FunctionSets
    /\ dsr_n_input_var \in 0..MaxVars
    /\ prob_sharing \in BOOLEAN
    /\ lm_token2idx \in Vocabularies
    /\ dsr2lm = Unset
    /\ lm2dsr = UnsetDict
    /\ next_state = None
    /\ last_op = "none"
    /\ err = "none"
    /\ next_input = <<>>
    /\ n_invoked = 0
    /\ fed_state = None
    /\ last_state = None
    /\ lm_logit = None
    /\ lm_prior = None
    /\ episode_step = "none"
    /\ caller_input = <<>>
    /\ p_pc = "new"
    /\ p_dsr2lm = [i \in Instances |-> Unset]
    /\ p_store = [i \in Instances |-> None]
    /\ p_prior = [i \in Instances |-> None]
    /\ p_order = ""
    /\ solo_state = [i \in Instances |-> None]
    /\ solo_prior = [i \in Instances |-> None]

\* LModel.__init__
Construct ==
    /\ pc = "new"
    /\ LET r == set_lib_to_lib(lm_token2idx, dsr_function_set, dsr_n_input_var)
       IN  /\ pc' = IF r.ok THEN "ready" ELSE "failed"
           /\ err' = IF r.ok THEN "none" ELSE "KeyError"
           /\ dsr2lm' = r.dsr2lm
           /\ lm2dsr' = r.lm2dsr
    /\ next_state' = None
    /\ last_op' = "__init__"
    /\ UNCHANGED << config, next_input, n_invoked, fed_state, last_state,
                    lm_logit, lm_prior, episode_step, caller_input, pair >>

InputBatches ==
    UNION { [1..k -> 0..(Len(dsr2lm) - 1)] : k \in BatchSizes }

\* LModel.get_lm_prior(next_input); modelOk: the session run does not fail by itself
get_lm_prior(input, modelOk) ==
    /\ pc = "ready"
    /\ LET tokens == Prep(dsr2lm, input)
           fed == FeedState(next_state)
           init == IF fed # None THEN fed ELSE DefaultState(Len(tokens))
           runs == modelOk /\ ModelAccepts(tokens, init)
           newState == LastState(tokens, init)
           logit == Logits(newState)
           res == LogitToPrior(logit, lm_token2idx, dsr2lm, dsr_n_input_var, prob_sharing)
       IN  /\ fed_state' = fed
           /\ n_invoked' = Invocations(modelOk)
           /\ IF runs
              THEN /\ next_state' = newState
                   /\ last_state' = newState
                   /\ lm_logit' = logit
                   /\ lm_prior' = res.prior
                   /\ err' = IF res.ok THEN "none" ELSE "KeyError"
                   /\ episode_step' = IF episode_step \in {"none", "reset"}
                                      THEN "first" ELSE "later"
              ELSE /\ err' = "InferenceError"
                   /\ lm_logit' = None
                   /\ lm_prior' = None
                   /\ next_state' = StateOnRaise(next_state)
                   /\ UNCHANGED << last_state, episode_step >>
    /\ next_input' = input
    /\ caller_input' = InputAfterPrep(dsr2lm, input)
    /\ last_op' = "get_lm_prior"
    /\ UNCHANGED << pc, config, dsr2lm, lm2dsr, pair >>

Step == \E input \in InputBatches, modelOk \in BOOLEAN : get_lm_prior(input, modelOk)

\* resetEpisode() on an LModel: the class defines no such attribute
resetEpisode ==
    /\ pc = "ready"
    /\ last_op' = "resetEpisode"
    /\ err' = "AttributeError"
    /\ next_input' = <<>>
    /\ caller_input' = <<>>
    /\ n_invoked' = 0
    /\ fed_state' = None
    /\ lm_logit' = None
    /\ lm_prior' = None
    /\ episode_step' = "reset"
    /\ UNCHANGED << pc, config, dsr2lm, lm2dsr, next_state, last_state, pair >>

Next == Construct \/ Step \/ resetEpisode

Spec == Init /\ [][Next]_vars

\* ------------------------------------------------- two instances
\* a next_state kept in one place for all instances (a class or module variable)
StateCell_shared(i) == 1

\* self.next_state: the attribute cell of instance i
StateCell(i) == i

\* one get_lm_prior call on table and held state: the state held afterwards
\* and the value returned (None when the call raises)
StepResult(table, held, input, modelOk) ==
    LET tokens == Prep(table, input)
        fed == FeedState(held)
        init == IF fed # None THEN fed ELSE DefaultState(Len(tokens))
        runs == modelOk /\ ModelAccepts(tokens, init)
        newState == LastState(tokens, init)
        res == LogitToPrior(Logits(newState), lm_token2idx, table,
                            dsr_n_input_var, prob_sharing)
    IN  IF runs
        THEN [ran |-> TRUE, state |-> newState, prior |-> res.prior]
        ELSE [ran |-> FALSE, state |-> StateOnRaise(held), prior |-> None]

\* progress of the runs along the order instance 1, instance 2, instance 1
Interleaved(order, i) ==
    CASE order = "" /\ i = 1 -> "1"
      [] order = "1" /\ i = 2 -> "12"
      [] order = "12" /\ i = 1 -> "121"
      [] OTHER -> order

\* LModel.__init__ of both instances
PairConstruct ==
    /\ p_pc = "new"
    /\ LET r == set_lib_to_lib(lm_token2idx, dsr_function_set, dsr_n_input_var)
       IN  /\ p_pc' = IF r.ok THEN "ready" ELSE "failed"
           /\ p_dsr2lm' = [i \in Instances |-> r.dsr2lm]
    /\ p_store' = [i \in Instances |-> None]
    /\ UNCHANGED << config, single, p_prior, p_order, solo_state, solo_prior >>

\* instance i is stepped with batches of i rows
PairInputs(i) == [1..i -> 0..(Len(p_dsr2lm[i]) - 1)]

\* get_lm_prior on instance i, followed in step by the same call on its copy run alone
PairCall(i, input, modelOk) ==
    /\ p_pc = "ready"
    /\ LET r == StepResult(p_dsr2lm[i], p_store[StateCell(i)], input, modelOk)
           a == StepResult(p_dsr2lm[i], solo_state[i], input, modelOk)
       IN  /\ p_store' = [p_store EXCEPT ![StateCell(i)] = r.state]
           /\ p_prior' = [p_prior EXCEPT ![i] = r.prior]
           /\ solo_state' = [solo_state EXCEPT ![i] = a.state]
           /\ solo_prior' = [solo_prior EXCEPT ![i] = a.prior]
           /\ p_order' = IF a.ran THEN Interleaved(p_order, i) ELSE p_order
    /\ UNCHANGED << config, single, p_pc, p_dsr2lm >>

PairStep ==
    \E i \in Instances : \E input \in PairInputs(i), modelOk \in BOOLEAN :
        PairCall(i, input, modelOk)

NextPair == PairConstruct \/ PairStep

SpecPair == Init /\ [][NextPair]_vars

\* =================================================================
\* Properties
\* =================================================================
StepReturned == last_op = "get_lm_prior" /\ err = "none"

\* size of the TerminalGroup of search index i (1-based position in dsr2lm)
GroupSize(i) == Cardinality({j \in 1..Len(dsr2lm) : dsr2lm[j] = dsr2lm[i]})

\* what a freshly constructed bridge holds and returns after one step on input
FreshState(input) == LastState(Prep(dsr2lm, input), DefaultState(Len(input)))
FreshPrior(input) ==
    LogitToPrior(Logits(FreshState(input)), lm_token2idx, dsr2lm,
                 dsr_n_input_var, prob_sharing).prior

\* some search token has no entry in the model vocabulary
MissingToken ==
    \/ dsr_n_input_var >= 1 /\ "TERMINAL" \notin DOMAIN lm_token2idx
    \/ \E j \in 1..Len(dsr_function_set) :
          Lower(dsr_function_set[j]) \notin DOMAIN lm_token2idx

\* C1 -- State threading: a successful step that follows an earlier model run
\* of the same episode (no reset in between) feeds the model exactly the state
\* that run returned, and holds and answers from the state the model computes
\* from it: the held state is replaced by the model's new state.
C1_StateThreading ==
    [][ (last_op' = "get_lm_prior" /\ err' = "none" /\ episode_step' = "later")
            => /\ fed_state' = last_state
               /\ next_state' = LastState(Prep(dsr2lm, next_input'), last_state)
               /\ last_state' = next_state'
               /\ lm_logit' = Logits(next_state') ]_vars

\* a second step whose answer differs from the answer of a fresh bridge
C1_Witness ==
    /\ StepReturned
    /\ episode_step = "later"
    /\ fed_state # None
    /\ lm_prior # FreshPrior(next_input)

\* C2 -- A freshly constructed bridge holds no state; a step taken while no
\* state is held feeds none to the model, which then starts from its default
\* initial state; once a state is held, one is held after every later step.
C2_FreshEmptyThenWarm ==
    [][ /\ (last_op' = "__init__" /\ pc' = "ready") => next_state' = None
        /\ (last_op' = "get_lm_prior" /\ next_state = None)
              => /\ fed_state' = None
                 /\ err' = "none" =>
                       /\ next_state' # None
                       /\ next_state' = FreshState(next_input')
        /\ (last_op' = "get_lm_prior" /\ next_state # None) => next_state' # None ]_vars

\* the first successful step of a fresh bridge
C2_Witness ==
    /\ StepReturned
    /\ episode_step = "first"
    /\ fed_state = None
    /\ next_state # None

\* C3 -- resetEpisode() always leads to EMPTY: after it has been called, in
\* whatever state, no recurrent state is held.
C3_ResetLeadsToEmpty ==
    last_op = "resetEpisode" => next_state = None

\* C4 -- Episode isolation: the first successful step after construction or
\* after resetEpisode() returns the prior, and leaves the held state, of a
\* freshly constructed bridge stepped once with the same input.
C4_EpisodeIsolation ==
    (StepReturned /\ episode_step = "first")
        => (lm_prior = FreshPrior(next_input) /\ next_state = FreshState(next_input))

\* C5 -- When a search token has no entry in the model vocabulary, construction
\* fails with a lookup error and leaves no alignment table: nothing is
\* substituted for the missing id and the object never answers a step.
C5_MissingTokenFails ==
    (pc # "new" /\ MissingToken)
        => /\ pc = "failed"
           /\ err = "KeyError"
           /\ dsr2lm = Unset
           /\ lm2dsr = UnsetDict
           /\ lm_prior = None

\* construction failed because only the case-normalised function name is missing
C5_Witness ==
    /\ pc = "failed"
    /\ MissingToken
    /\ dsr_function_set = <<"Sin">>
    /\ "Sin" \in DOMAIN lm_token2idx

\* C6 -- On a successful build dsr2lm has one entry per search token: the id of
\* 'TERMINAL' for each of the first dsr_n_input_var entries, then the id of the
\* lower-cased name of each function, in function-set order.
C6_AlignmentTotal ==
    pc = "ready"
        => /\ Len(dsr2lm) = dsr_n_input_var + Len(dsr_function_set)
           /\ \A i \in 1..dsr_n_input_var :
                 /\ "TERMINAL" \in DOMAIN lm_token2idx
                 /\ dsr2lm[i] = lm_token2idx["TERMINAL"]
           /\ \A j \in 1..Len(dsr_function_set) :
                 /\ Lower(dsr_function_set[j]) \in DOMAIN lm_token2idx
                 /\ dsr2lm[dsr_n_input_var + j] = lm_token2idx[Lower(dsr_function_set[j])]

\* a table with two input variables followed by two functions
C6_Witness ==
    /\ pc = "ready"
    /\ dsr_n_input_var = 2
    /\ dsr_function_set = <<"add", "sin">>
    /\ Len(dsr2lm) = 4

\* C7 -- Sharing correctness: with sharing enabled every entry of a returned
\* prior equals the raw logit at its aligned id minus ln(k), k the size of
\* the entry's TerminalGroup in dsr2lm.
C7_SharingCorrectness ==
    (StepReturned /\ prob_sharing)
        => \A b \in 1..Len(lm_prior) : \A i \in 1..Len(dsr2lm) :
              lm_prior[b][i] = LogSub(lm_logit[b][dsr2lm[i]], GroupSize(i))

\* C8 -- No-op sharing: with sharing disabled, or for a search token whose
\* TerminalGroup has size 1, the returned value is the raw logit at the
\* token's aligned id.
C8_NoOpSharing ==
    StepReturned
        => \A b \in 1..Len(lm_prior) : \A i \in 1..Len(dsr2lm) :
              (~prob_sharing \/ GroupSize(i) = 1)
                  => lm_prior[b][i] = lm_logit[b][dsr2lm[i]]

\* sharing is enabled and the single input variable is alone in its group
C8_Witness ==
    /\ StepReturned
    /\ prob_sharing
    /\ dsr_n_input_var = 1
    /\ GroupSize(1) = 1
    /\ lm_prior[1][1] = lm_logit[1][lm_token2idx["TERMINAL"]]

\* C9 -- Output projection: a returned prior has one row per batch row, each of
\* length |SearchVocabulary|; entry i of row b is the logit of row b at
\* dsr2lm[i], raw or corrected by the sharing term, and two entries of one
\* TerminalGroup are equal.
C9_OutputProjection ==
    StepReturned
        => /\ Len(lm_prior) = Len(next_input)
           /\ \A b \in 1..Len(lm_prior) :
                 /\ Len(lm_prior[b]) = dsr_n_input_var + Len(dsr_function_set)
                 /\ \A i \in 1..Len(dsr2lm) :
                       /\ lm_prior[b][i] \in
                             { lm_logit[b][dsr2lm[i]],
                               LogSub(lm_logit[b][dsr2lm[i]], dsr_n_input_var) }
                       /\ \A j \in 1..Len(dsr2lm) :
                             dsr2lm[j] = dsr2lm[i] => lm_prior[b][j] = lm_prior[b][i]

\* a batch of two rows over a library of four tokens with a group of two
C9_Witness ==
    /\ StepReturned
    /\ Len(next_input) = 2
    /\ Len(lm_prior) = 2
    /\ Len(lm_prior[2]) = 4
    /\ GroupSize(1) = 2
    /\ lm_prior[1] # lm_prior[2]

\* C10 -- Batch-size enforcement: a step whose batch size differs from that of
\* the held state is rejected with StateShapeError before the model is invoked.
C10_BatchSizeEnforced ==
    (last_op = "get_lm_prior" /\ fed_state # None /\ Len(fed_state) # Len(next_input))
        => (err = "StateShapeError" /\ n_invoked = 0)

\* C11 -- No retry: when the model run fails during a step, the call ends with
\* that failure after exactly one invocation of the model and returns no prior.
C11_NoRetry ==
    (last_op = "get_lm_prior" /\ err = "InferenceError")
        => (n_invoked = 1 /\ lm_prior = None /\ lm_logit = None)

\* a step whose model run failed while a state was held
C11_Witness ==
    /\ last_op = "get_lm_prior"
    /\ err = "InferenceError"
    /\ next_state # None
    /\ Len(next_state) = Len(next_input)
    /\ n_invoked = 1

\* C12 -- Frame condition: a get_lm_prior call leaves dsr2lm, lm2dsr,
\* lm_token2idx, prob_sharing, dsr_n_input_var and the caller's input batch as
\* they were; only the held state may change.
C12_Frame ==
    [][ last_op' = "get_lm_prior"
            => /\ dsr2lm' = dsr2lm
               /\ lm2dsr' = lm2dsr
               /\ lm_token2idx' = lm_token2idx
               /\ prob_sharing' = prob_sharing
               /\ dsr_n_input_var' = dsr_n_input_var
               /\ caller_input' = next_input' ]_vars

\* a successful later step whose input indices differ from the model ids they map to
C12_Witness ==
    /\ StepReturned
    /\ episode_step = "later"
    /\ caller_input = next_input
    /\ Prep(dsr2lm, next_input) # next_input

\* the most recent step fed the model a state of another batch size than its input
BatchMismatch == fed_state # None /\ Len(fed_state) # Len(next_input)

\* C14 -- Recovery from a batch-size change: once resetEpisode() has been
\* called, a step of any batch size is accepted; it never meets a held state
\* of another batch size.
C14_RecoveryAfterReset ==
    (last_op = "get_lm_prior" /\ episode_step = "reset") => ~BatchMismatch

C16_Lm2dsrInverse ==
    pc = "ready"
        => /\ Cardinality(DOMAIN lm2dsr) = VocabSize
           /\ \A i \in 1..Len(dsr2lm) : lm2dsr[dsr2lm[i]] = i - 1

====
